---- MODULE Spec2Model ----
(***************************************************************************)
(* Model of main_final.py, the Chicago health story generator: a one-shot  *)
(* batch pipeline that loads a boundary GeoJSON and an indicator CSV,      *)
(* joins them on the community-area code and writes six output files.      *)
(*                                                                         *)
(* Metric values are kept in quarter units (40 is 10.0, 81 is 20.25), so   *)
(* that every value is an exact binary float and the decimal formatting    *)
(* of the code (round half to even) is modelled exactly.  Texts are        *)
(* sequences of one-character strings.                                     *)
(***************************************************************************)
EXTENDS Integers, Sequences, FiniteSets, TLC

\* ------------------------------------------------------------------------
\* Bounds of the model
\* ------------------------------------------------------------------------
MaxRows == 3

\* Area codes of the tabular rows, polygons of the boundary file, metric
\* values (quarter units) that the input files are drawn from.
Areas == {1, 2}
PolygonAreas == <<1, 2>>
MetricValues == {40, 81}
Kinds == {"int", "float", "text"}
AreaNames == <<"AreaOne", "AreaTwo", "AreaThree", "AreaFour", "AreaFive">>

\* ------------------------------------------------------------------------
\* Program constants
\* ------------------------------------------------------------------------
GEO_PATH == "/home/sam/projects/iitech/data_viz/mod9/data/chicago-community-areas.geojson"
CSV_PATH == "/home/sam/projects/iitech/data_viz/mod9/data/public-health-statistics-selected-public-health-indicators-by-chicago-community-area-1.csv"
PNG_OUT == "chicago_health_poster.png"
HTML_OUT == "chicago_health_map.html"
BAR_OUT == "bar_top10.png"
HIST_OUT == "hist_metric.png"
TABLE_OUT == "table_top10.csv"
STORY_OUT == "story.html"
Outputs == {PNG_OUT, HTML_OUT, BAR_OUT, HIST_OUT, TABLE_OUT, STORY_OUT}
metric == "Low Birth Weight"
TopN == 10

VARIABLES
    geoFile,    \* the boundary file on disk: [exists, kind, areas]
    csvFile,    \* the indicator file on disk: [exists, kind, hasMetric, rows]
    pc,         \* position of the script
    geo,        \* the loaded polygon collection (sequence of records)
    df,         \* the loaded tabular collection: [cols, rows]
    merged,     \* the joined collection
    top10,      \* the top-N subset
    disk,       \* output path -> <<>> (no file) or <<content>>
    written,    \* outputs written by the current run, in order
    error,      \* the uncaught exception of the current run, or NoError
    printed,    \* the confirmation lines were printed by the current run
    stats,      \* mean_val, max_val and max_area of the narrative
    outDir,     \* the output directory exists
    rerun,      \* the script has been started a second time
    geoLoaded,  \* history: geo as read_file returned it in this run
    dfLoaded,   \* history: df as read_csv returned it in this run
    firstDisk   \* history: the disk as the first run left it

vars == <<geoFile, csvFile, pc, geo, df, merged, top10, disk, written,
          error, printed, stats, outDir, rerun, geoLoaded, dfLoaded, firstDisk>>

\* ------------------------------------------------------------------------
\* Values
\* ------------------------------------------------------------------------
NoError == [type |-> "none", path |-> "", at |-> "none"]
NoFrame == [cols |-> {}, rows |-> <<>>]
NaN == <<>>                      \* a null metric cell; a value v is <<v>>
NaNName == "NaN"
NaNKey == [kind |-> "nan", num |-> 0, txt |-> <<>>]
NoStats == [mean_val |-> [num |-> 0, den |-> 0], max_val |-> NaN, max_area |-> NaNName]

notna(cell) == cell # NaN

Digit(d) == <<"0", "1", "2", "3", "4", "5", "6", "7", "8", "9">>[d + 1]

RECURSIVE Digits(_)
Digits(n) == IF n < 10 THEN <<Digit(n)>> ELSE Digits(n \div 10) \o <<Digit(n % 10)>>

\* A key cell as a loader produces it for area number n.
KeyCell(kind, n) ==
    IF kind = "text"
    THEN [kind |-> "text", num |-> 0, txt |-> Digits(n)]
    ELSE [kind |-> kind, num |-> n, txt |-> <<>>]

\* str() of one key cell, as Series.astype(str) applies it.
AsTypeStr(k) ==
    CASE k.kind = "int"   -> [kind |-> "text", num |-> 0, txt |-> Digits(k.num)]
      [] k.kind = "float" -> [kind |-> "text", num |-> 0,
                              txt |-> Digits(k.num) \o <<".", "0">>]
      [] k.kind = "nan"   -> [kind |-> "text", num |-> 0, txt |-> <<"n", "a", "n">>]
      [] OTHER            -> k

\* ------------------------------------------------------------------------
\* Input files
\* ------------------------------------------------------------------------
RowsOfLen(n) ==
    { [i \in 1..n |-> [area |-> c[i][1], name |-> AreaNames[i], value |-> c[i][2]]] :
        c \in [1..n -> Areas \X ({NaN} \cup {<<v>> : v \in MetricValues})] }

CsvContents == UNION { RowsOfLen(n) : n \in 0..MaxRows }

NoGeoFile == [exists |-> FALSE, kind |-> "text", areas |-> <<>>]
NoCsvFile == [exists |-> FALSE, kind |-> "int", hasMetric |-> FALSE, rows |-> <<>>]

GeoFiles ==
    {NoGeoFile} \cup
    { [exists |-> TRUE, kind |-> k, areas |-> PolygonAreas] : k \in Kinds }

CsvFiles ==
    {NoCsvFile} \cup
    { [exists |-> TRUE, kind |-> k, hasMetric |-> TRUE, rows |-> r] :
        k \in Kinds, r \in CsvContents } \cup
    { [exists |-> TRUE, kind |-> k, hasMetric |-> FALSE,
       rows |-> [i \in 1..n |-> [area |-> 1, name |-> AreaNames[i], value |-> NaN]]] :
        k \in Kinds, n \in 0..1 }

\* gpd.read_file: one record per polygon, its code in column area_numbe.
ReadGeo(f) ==
    [i \in 1..Len(f.areas) |->
        [area_numbe |-> KeyCell(f.kind, f.areas[i]), geometry |-> i]]

\* pd.read_csv: the columns of the file and one record per row.
ReadCsv(f) ==
    [cols |-> {"Community Area", "Community Area Name"} \cup
              (IF f.hasMetric THEN {metric} ELSE {}),
     rows |-> [i \in 1..Len(f.rows) |->
                 [CommunityArea |-> KeyCell(f.kind, f.rows[i].area),
                  CommunityAreaName |-> f.rows[i].name,
                  value |-> f.rows[i].value]]]

Init ==
    /\ geoFile \in GeoFiles
    /\ csvFile \in CsvFiles
    /\ pc = "start"
    /\ geo = <<>>
    /\ df = NoFrame
    /\ merged = <<>>
    /\ top10 = <<>>
    /\ disk = [f \in Outputs |-> <<>>]
    /\ written = <<>>
    /\ error = NoError
    /\ printed = FALSE
    /\ stats = NoStats
    /\ outDir = FALSE
    /\ rerun = FALSE
    /\ geoLoaded = <<>>
    /\ dfLoaded = NoFrame
    /\ firstDisk = [f \in Outputs |-> <<>>]

inputs == <<geoFile, csvFile>>
history == <<rerun, firstDisk>>

\* ------------------------------------------------------------------------
\* Pure parts of the pipeline
\* ------------------------------------------------------------------------

\* DataFrame.merge(how="left"): for every left record in order, one joined
\* record per right record with an equal key, in the right's order, or one
\* record with null right columns when there is none.
JoinedRow(l, r) ==
    [area_numbe |-> l.area_numbe, geometry |-> l.geometry,
     CommunityArea |-> r.CommunityArea,
     CommunityAreaName |-> r.CommunityAreaName,
     value |-> r.value]

NullRight ==
    [CommunityArea |-> NaNKey, CommunityAreaName |-> NaNName, value |-> NaN]

RECURSIVE MatchesOf(_, _, _)
MatchesOf(l, rows, j) ==
    IF j > Len(rows) THEN <<>>
    ELSE (IF rows[j].CommunityArea = l.area_numbe
          THEN <<JoinedRow(l, rows[j])>> ELSE <<>>) \o MatchesOf(l, rows, j + 1)

RECURSIVE MergeFrom(_, _, _)
MergeFrom(left, rows, i) ==
    IF i > Len(left) THEN <<>>
    ELSE LET m == MatchesOf(left[i], rows, 1)
         IN  (IF m = <<>> THEN <<JoinedRow(left[i], NullRight)>> ELSE m)
             \o MergeFrom(left, rows, i + 1)

Merge(left, rows) == MergeFrom(left, rows, 1)

\* Round n/d to the nearest integer, ties to even (Python's float format).
RoundHalfEven(n, d) ==
    LET f == n \div d
        r == n % d
    IN  IF 2 * r < d THEN f
        ELSE IF 2 * r > d THEN f + 1
        ELSE IF f % 2 = 0 THEN f ELSE f + 1

\* f"{x:.1f}" of the value num/den.
Format1(num, den) ==
    LET t == RoundHalfEven(10 * num, den)
    IN  Digits(t \div 10) \o <<".", Digit(t % 10)>>

\* f"{x:.2f}" of the value num/den.
Format2(num, den) ==
    LET h == RoundHalfEven(100 * num, den)
    IN  Digits(h \div 100) \o <<".", Digit((h \div 10) % 10), Digit(h % 10)>>

\* repr of a float holding q quarter units, as to_csv writes it.
FloatRepr(q) ==
    Digits(q \div 4) \o
    (CASE q % 4 = 0 -> <<".", "0">>
       [] q % 4 = 1 -> <<".", "2", "5">>
       [] q % 4 = 2 -> <<".", "5">>
       [] OTHER     -> <<".", "7", "5">>)

\* The iterrows loop of the poster and of the interactive map: one label
\* per joined record whose metric is not null.
RECURSIVE LabelsFrom(_, _)
LabelsFrom(rows, i) ==
    IF i > Len(rows) THEN <<>>
    ELSE (IF notna(rows[i].value)
          THEN <<[geometry |-> rows[i].geometry,
                  text |-> Format1(rows[i].value[1], 4)]>>
          ELSE <<>>) \o LabelsFrom(rows, i + 1)

Labels(rows) == LabelsFrom(rows, 1)

\* Indices of rows whose metric is not null / is null, in row order.
RECURSIVE IndicesFrom(_, _, _)
IndicesFrom(rows, i, wantNull) ==
    IF i > Len(rows) THEN <<>>
    ELSE (IF (rows[i].value = NaN) = wantNull THEN <<i>> ELSE <<>>)
         \o IndicesFrom(rows, i + 1, wantNull)

\* The not-null indices by descending metric, earlier row first among equals.
RECURSIVE SortDesc(_, _)
SortDesc(rows, idx) ==
    IF idx = <<>> THEN <<>>
    ELSE LET best == CHOOSE k \in 1..Len(idx) :
                        /\ \A m \in 1..Len(idx) :
                              rows[idx[m]].value[1] <= rows[idx[k]].value[1]
                        /\ \A m \in 1..(k - 1) :
                              rows[idx[m]].value[1] < rows[idx[k]].value[1]
             rest == [m \in 1..(Len(idx) - 1) |->
                        IF m < best THEN idx[m] ELSE idx[m + 1]]
         IN  <<idx[best]>> \o SortDesc(rows, rest)

\* DataFrame.nlargest(n, metric): the n first of the not-null records by
\* descending metric followed by the null records.
nlargest(n, rows) ==
    LET order == SortDesc(rows, IndicesFrom(rows, 1, FALSE))
                 \o IndicesFrom(rows, 1, TRUE)
        k == IF n < Len(order) THEN n ELSE Len(order)
    IN  [i \in 1..k |-> rows[order[i]]]

\* DataFrame.to_csv(index=False): one line of cell texts per record.
to_csv(rows) ==
    [i \in 1..Len(rows) |->
        <<rows[i].CommunityArea.txt, rows[i].CommunityAreaName,
          IF notna(rows[i].value) THEN FloatRepr(rows[i].value[1]) ELSE <<>>>>]

\* Series.dropna() of the metric column.
dropna(rows) ==
    LET idx == IndicesFrom(rows, 1, FALSE)
    IN  [i \in 1..Len(idx) |-> rows[idx[i]].value[1]]

RECURSIVE SumSeq(_)
SumSeq(s) == IF s = <<>> THEN 0 ELSE Head(s) + SumSeq(Tail(s))

\* Variant of mean that divides by the number of all records.
meanOverAllRows(rows) ==
    [num |-> SumSeq(dropna(rows)), den |-> 4 * Len(rows)]

\* Series.mean(): the sum of the not-null values over their count.
mean(rows) ==
    LET v == dropna(rows)
    IN  [num |-> SumSeq(v), den |-> 4 * Len(v)]

\* Series.max(): the largest not-null value, NaN when there is none.
max(rows) ==
    LET v == dropna(rows)
    IN  IF v = <<>> THEN NaN
        ELSE <<CHOOSE x \in {v[i] : i \in 1..Len(v)} :
                  \A i \in 1..Len(v) : v[i] <= x>>

\* df.loc[df[metric] == max_val, "Community Area Name"].values
NamesAt(rows, m) ==
    LET idx == IndicesFrom(rows, 1, FALSE)
        hit == SelectSeq(idx, LAMBDA i : m # NaN /\ rows[i].value = m)
    IN  [i \in 1..Len(hit) |-> rows[hit[i]].CommunityAreaName]

\* ------------------------------------------------------------------------
\* The script, top to bottom
\* ------------------------------------------------------------------------
Order == <<PNG_OUT, HTML_OUT, TABLE_OUT, BAR_OUT, HIST_OUT, STORY_OUT>>

\* Variant of Raise that removes the output files when a step fails.
RaiseWithCleanup(type, path) ==
    /\ pc' = "failed"
    /\ error' = [type |-> type, path |-> path, at |-> pc]
    /\ disk' = [f \in Outputs |-> <<>>]
    /\ UNCHANGED written

\* An uncaught exception ends the run where it is raised; nothing that was
\* written is removed.
Raise(type, path) ==
    /\ pc' = "failed"
    /\ error' = [type |-> type, path |-> path, at |-> pc]
    /\ UNCHANGED <<disk, written>>

\* Variant of Write that opens the file for appending.
WriteAppend(f, content) ==
    /\ disk' = [disk EXCEPT ![f] = @ \o <<content>>]
    /\ written' = Append(written, f)

\* savefig / save / to_csv / write_text: the file is created or replaced.
Write(f, content) ==
    /\ disk' = [disk EXCEPT ![f] = <<content>>]
    /\ written' = Append(written, f)

\* Line 19: os.makedirs(OUT, exist_ok=True).
MakeOutDir ==
    /\ pc = "start"
    /\ outDir' = TRUE
    /\ pc' = "load"
    /\ UNCHANGED <<inputs, geo, df, merged, top10, disk, written, error,
                   printed, stats, history, geoLoaded, dfLoaded>>

\* Variant of LoadData whose second check reports the first path.
LoadDataWrongPath ==
    /\ pc = "load"
    /\ IF ~geoFile.exists
       THEN /\ Raise("FileNotFoundError", GEO_PATH)
            /\ UNCHANGED <<geo, df, geoLoaded, dfLoaded>>
       ELSE IF ~csvFile.exists
       THEN /\ Raise("FileNotFoundError", GEO_PATH)
            /\ UNCHANGED <<geo, df, geoLoaded, dfLoaded>>
       ELSE /\ geo' = ReadGeo(geoFile)
            /\ df' = ReadCsv(csvFile)
            /\ geoLoaded' = geo'
            /\ dfLoaded' = df'
            /\ pc' = "select"
            /\ UNCHANGED <<error, disk, written>>
    /\ UNCHANGED <<inputs, merged, top10, printed, stats, outDir, history>>

\* Lines 36-43: the two existence checks, then both loads.
LoadData ==
    /\ pc = "load"
    /\ IF ~geoFile.exists
       THEN /\ Raise("FileNotFoundError", GEO_PATH)
            /\ UNCHANGED <<geo, df, geoLoaded, dfLoaded>>
       ELSE IF ~csvFile.exists
       THEN /\ Raise("FileNotFoundError", CSV_PATH)
            /\ UNCHANGED <<geo, df, geoLoaded, dfLoaded>>
       ELSE /\ geo' = ReadGeo(geoFile)
            /\ df' = ReadCsv(csvFile)
            /\ geoLoaded' = geo'
            /\ dfLoaded' = df'
            /\ pc' = "select"
            /\ UNCHANGED <<error, disk, written>>
    /\ UNCHANGED <<inputs, merged, top10, printed, stats, outDir, history>>

\* Variant of SelectMetric without the column check.
SelectMetricNoCheck ==
    /\ pc = "select"
    /\ pc' = "merge"
    /\ UNCHANGED <<error, disk, written>>
    /\ UNCHANGED <<inputs, geo, df, merged, top10, printed, stats, outDir,
                   history, geoLoaded, dfLoaded>>

\* Lines 48-51: the metric column must be a column of df.
SelectMetric ==
    /\ pc = "select"
    /\ IF metric \notin df.cols
       THEN Raise("ValueError", "")
       ELSE /\ pc' = "merge"
            /\ UNCHANGED <<error, disk, written>>
    /\ UNCHANGED <<inputs, geo, df, merged, top10, printed, stats, outDir,
                   history, geoLoaded, dfLoaded>>

\* Lines 56-59: both key columns are replaced by their str() form, in
\* place, and the polygons are left-joined with the rows.
MergeData ==
    /\ pc = "merge"
    /\ df' = [df EXCEPT !.rows =
                [i \in 1..Len(df.rows) |->
                    [df.rows[i] EXCEPT !.CommunityArea = AsTypeStr(@)]]]
    /\ geo' = [i \in 1..Len(geo) |-> [geo[i] EXCEPT !.area_numbe = AsTypeStr(@)]]
    /\ merged' = Merge(geo', df'.rows)
    /\ pc' = "poster"
    /\ UNCHANGED <<inputs, top10, disk, written, error, printed, stats,
                   outDir, history, geoLoaded, dfLoaded>>

\* Lines 64-85: the choropleth, its centroid labels, savefig.
Poster ==
    /\ pc = "poster"
    /\ Write(PNG_OUT, [column |-> metric, polygons |-> Len(merged),
                       labels |-> Labels(merged)])
    /\ pc' = "map"
    /\ UNCHANGED <<inputs, geo, df, merged, top10, error, printed, stats,
                   outDir, history, geoLoaded, dfLoaded>>

\* Lines 90-113: the folium map, its markers, save.
InteractiveMap ==
    /\ pc = "map"
    /\ Write(HTML_OUT, [column |-> metric, polygons |-> Len(merged),
                        labels |-> Labels(merged)])
    /\ pc' = "table"
    /\ UNCHANGED <<inputs, geo, df, merged, top10, error, printed, stats,
                   outDir, history, geoLoaded, dfLoaded>>

\* Variant of Table that sorts df itself before taking the first records.
TableSortsInPlace ==
    /\ pc = "table"
    /\ df' = [df EXCEPT !.rows = nlargest(Len(df.rows), df.rows)]
    /\ top10' = nlargest(TopN, df.rows)
    /\ Write(TABLE_OUT, to_csv(top10'))
    /\ pc' = "bar"
    /\ UNCHANGED <<inputs, geo, merged, error, printed, stats, outDir,
                   history, geoLoaded, dfLoaded>>

\* Lines 118-119: top10 = df.nlargest(10, metric), written with to_csv.
Table ==
    /\ pc = "table"
    /\ top10' = nlargest(TopN, df.rows)
    /\ Write(TABLE_OUT, to_csv(top10'))
    /\ pc' = "bar"
    /\ UNCHANGED <<inputs, geo, df, merged, error, printed, stats, outDir,
                   history, geoLoaded, dfLoaded>>

\* Lines 122-129: one horizontal bar per record of top10.
BarChart ==
    /\ pc = "bar"
    /\ Write(BAR_OUT, [i \in 1..Len(top10) |->
                          <<top10[i].CommunityArea.txt, top10[i].value>>])
    /\ pc' = "hist"
    /\ UNCHANGED <<inputs, geo, df, merged, top10, error, printed, stats,
                   outDir, history, geoLoaded, dfLoaded>>

\* Lines 132-139: the histogram of the not-null metric values.
Histogram ==
    /\ pc = "hist"
    /\ Write(HIST_OUT, dropna(df.rows))
    /\ pc' = "story"
    /\ UNCHANGED <<inputs, geo, df, merged, top10, error, printed, stats,
                   outDir, history, geoLoaded, dfLoaded>>

\* Lines 144-162: mean, maximum, the first name at the maximum (values[0]
\* raises IndexError when no record has it), the template, write_text.
Story ==
    /\ pc = "story"
    /\ LET mean_val == mean(df.rows)
           max_val == max(df.rows)
           names == NamesAt(df.rows, max_val)
       IN  IF names = <<>>
           THEN /\ Raise("IndexError", "")
                /\ UNCHANGED stats
           ELSE /\ stats' = [mean_val |-> mean_val, max_val |-> max_val,
                             max_area |-> names[1]]
                /\ Write(STORY_OUT,
                         [metric |-> metric,
                          mean |-> Format2(mean_val.num, mean_val.den),
                          area |-> names[1],
                          max |-> Format2(max_val[1], 4)])
                /\ pc' = "report"
                /\ UNCHANGED error
    /\ UNCHANGED <<inputs, geo, df, merged, top10, printed, outDir, history,
                   geoLoaded, dfLoaded>>

\* Lines 164-170: the confirmation lines.
Report ==
    /\ pc = "report"
    /\ printed' = TRUE
    /\ pc' = "done"
    /\ UNCHANGED <<inputs, geo, df, merged, top10, disk, written, error,
                   stats, outDir, history, geoLoaded, dfLoaded>>

\* Any library call of a rendering or writing step may raise (no tile
\* server, no disk space, ...): the step's file is not written.
RenderSteps == {"poster", "map", "table", "bar", "hist", "story"}

LibraryFailure ==
    /\ pc \in RenderSteps
    /\ Raise("Exception", "")
    /\ UNCHANGED <<inputs, geo, df, merged, top10, printed, stats, outDir,
                   history, geoLoaded, dfLoaded>>

\* The script is started again on the same input files; the first run's
\* output files are still there.
RunAgain ==
    /\ pc \in {"done", "failed"}
    /\ ~rerun
    /\ rerun' = TRUE
    /\ firstDisk' = disk
    /\ pc' = "start"
    /\ geo' = <<>>
    /\ df' = NoFrame
    /\ merged' = <<>>
    /\ top10' = <<>>
    /\ written' = <<>>
    /\ error' = NoError
    /\ printed' = FALSE
    /\ stats' = NoStats
    /\ geoLoaded' = <<>>
    /\ dfLoaded' = NoFrame
    /\ UNCHANGED <<inputs, disk, outDir>>

Next ==
    \/ MakeOutDir
    \/ LoadData
    \/ SelectMetric
    \/ MergeData
    \/ Poster
    \/ InteractiveMap
    \/ Table
    \/ BarChart
    \/ Histogram
    \/ Story
    \/ Report
    \/ LibraryFailure

\* One run of the script on any pair of input files.
Spec == Init /\ [][Next]_vars

\* Two runs in a row.  The boundary file's key representation reaches
\* neither the table nor the narrative, so it is the GeoJSON's text here.
InitTwice == Init /\ geoFile.kind = "text"

NextTwice == Next \/ RunAgain

SpecTwice == InitTwice /\ [][NextTwice]_vars

\* ------------------------------------------------------------------------
\* Properties
\* ------------------------------------------------------------------------
Range(q) == {q[i] : i \in 1..Len(q)}
NoOutputs == \A f \in Outputs : disk[f] = <<>>
Min(a, b) == IF a < b THEN a ELSE b

\* The sum of the metric values of the rows of a file with index in S.
RECURSIVE SetSum(_, _)
SetSum(S, rows) ==
    IF S = {} THEN 0
    ELSE LET x == CHOOSE y \in S : TRUE
         IN  rows[x].value[1] + SetSum(S \ {x}, rows)

\* The number a text of digits and one point denotes, the point dropped.
RECURSIVE Unpointed(_)
Unpointed(t) ==
    IF t = <<>> THEN 0
    ELSE LET c == t[Len(t)]
             front == SubSeq(t, 1, Len(t) - 1)
         IN  IF c = "." THEN Unpointed(front)
             ELSE 10 * Unpointed(front) + (CHOOSE d \in 0..9 : Digit(d) = c)

Abs(x) == IF x < 0 THEN -x ELSE x

\* C1: when an input file is absent the run fails in the load step, no
\* output file is written, and the error names the path of an absent file.
MissingInputFailsBeforeOutput ==
    (~geoFile.exists \/ ~csvFile.exists) =>
        /\ written = <<>>
        /\ NoOutputs
        /\ pc \in {"start", "load", "failed"}
        /\ pc = "failed" =>
              /\ error.type = "FileNotFoundError"
              /\ error.at = "load"
              /\ \/ error.path = GEO_PATH /\ ~geoFile.exists
                 \/ error.path = CSV_PATH /\ ~csvFile.exists

MissingCsvReported ==
    /\ geoFile.exists
    /\ ~csvFile.exists
    /\ pc = "failed"
    /\ error.path = CSV_PATH

\* C2: when the metric column is absent the run fails in the column check,
\* after loading and before the join, and no output file is written.
MissingMetricFailsBeforeOutput ==
    (geoFile.exists /\ csvFile.exists /\ ~csvFile.hasMetric) =>
        /\ written = <<>>
        /\ NoOutputs
        /\ merged = <<>>
        /\ df = dfLoaded
        /\ pc \in {"start", "load", "select", "failed"}
        /\ pc = "failed" =>
              /\ error.type = "ValueError"
              /\ error.at = "select"
              /\ dfLoaded = ReadCsv(csvFile)

MissingMetricReported ==
    /\ pc = "failed"
    /\ error.type = "ValueError"
    /\ dfLoaded.rows # <<>>

\* C3 (as claimed): when some polygon is matched, the joined collection has
\* one record per polygon, whatever the tabular rows are.
JoinKeepsCardinality ==
    (merged # <<>> /\ \E i \in 1..Len(merged) : merged[i].CommunityArea # NaNKey) =>
        /\ Len(merged) = Len(geoFile.areas)
        /\ \A g \in 1..Len(geoFile.areas) :
              Cardinality({i \in 1..Len(merged) : merged[i].geometry = g}) = 1

\* C4 (as claimed): a polygon whose area number is the area number of some
\* tabular row is joined with indicator columns, whatever the two loaders
\* produced for the key columns.
SameAreaNumberIsMatched ==
    \A i \in 1..Len(merged) :
        (\E j \in 1..Len(csvFile.rows) :
            csvFile.rows[j].area = geoFile.areas[merged[i].geometry])
        => merged[i].CommunityArea # NaNKey

\* C5 (as claimed): the table has min(10, rows with a metric) rows, in
\* descending order of the metric, and no row left out exceeds a row in it.
TableIsTopOfNotNull ==
    TABLE_OUT \in Range(written) =>
        LET table == disk[TABLE_OUT][1]
            rows == csvFile.rows
            notNull == {j \in 1..Len(rows) : rows[j].value # NaN}
        IN  /\ Len(table) = Min(TopN, Cardinality(notNull))
            /\ Len(table) = Len(top10)
            /\ \A i \in 1..Len(top10) : top10[i].value # NaN
            /\ \A i, k \in 1..Len(top10) :
                  i < k => top10[i].value[1] >= top10[k].value[1]
            /\ \A j \in notNull :
                  \/ \E i \in 1..Len(top10) : top10[i].CommunityAreaName = rows[j].name
                  \/ \A i \in 1..Len(top10) : rows[j].value[1] <= top10[i].value[1]

\* C6: the narrative's mean is the sum of the not-null metric values over
\* their number, its maximum is the largest of them, its area name is the
\* name of a row with that maximum, and the text shows the three (mean and
\* maximum to the two decimals of the template).
NarrativeStatistics ==
    STORY_OUT \in Range(written) =>
        LET story == disk[STORY_OUT][1]
            rows == csvFile.rows
            notNull == {j \in 1..Len(rows) : rows[j].value # NaN}
            Val(j) == rows[j].value[1]
            total == SetSum(notNull, rows)
            count == Cardinality(notNull)
        IN  /\ count > 0
            /\ stats.mean_val.den > 0
            /\ stats.mean_val.num * 4 * count = total * stats.mean_val.den
            /\ stats.max_val # NaN
            /\ \A j \in notNull : Val(j) <= stats.max_val[1]
            /\ \E j \in notNull :
                  Val(j) = stats.max_val[1] /\ rows[j].name = stats.max_area
            /\ story.area = stats.max_area
            /\ Unpointed(story.max) = 25 * stats.max_val[1]
            /\ 2 * Abs(Unpointed(story.mean) * 4 * count - 100 * total) <= 4 * count

NarrativeOverNulls ==
    /\ STORY_OUT \in Range(written)
    /\ \E j \in 1..Len(csvFile.rows) : csvFile.rows[j].value = NaN
    /\ \E j, k \in 1..Len(csvFile.rows) :
          /\ csvFile.rows[j].value # NaN
          /\ csvFile.rows[k].value # NaN
          /\ csvFile.rows[j].value # csvFile.rows[k].value
    /\ stats.max_area = "AreaTwo"

\* C7 (as claimed): in the poster and in the interactive map every polygon
\* with a not-null metric has exactly one label, its value to one decimal,
\* and a polygon with a null metric has none.
OneLabelPerValuedPolygon ==
    \A f \in {PNG_OUT, HTML_OUT} :
        f \in Range(written) =>
            \A g \in 1..Len(geoFile.areas) :
                LET labels == disk[f][1].labels
                    mine == {i \in 1..Len(labels) : labels[i].geometry = g}
                    valued == {i \in 1..Len(merged) :
                                  merged[i].geometry = g /\ merged[i].value # NaN}
                IN  IF valued = {}
                    THEN mine = {}
                    ELSE /\ Cardinality(mine) = 1
                         /\ \A i \in mine : \E m \in valued :
                               2 * Abs(Unpointed(labels[i].text) * 4
                                       - 10 * merged[m].value[1]) <= 4

\* C8: the outputs are written in the order poster, map, table, bar chart,
\* histogram, narrative; a failure at step k leaves exactly the outputs of
\* the steps before k written and on disk, every other file as it was, and
\* the confirmation is printed only when all six are written.
StepIndex(at) ==
    CASE at = "poster" -> 1
      [] at = "map"    -> 2
      [] at = "table"  -> 3
      [] at = "bar"    -> 4
      [] at = "hist"   -> 5
      [] at = "story"  -> 6
      [] OTHER         -> 1

LoadedCollectionsUnchanged ==
    /\ df = dfLoaded
    /\ geo = geoLoaded

\* The text the join step leaves in place of a key cell as loaded.
KeyText(k) ==
    CASE k.kind = "int"   -> Digits(k.num)
      [] k.kind = "float" -> Digits(k.num) \o <<".", "0">>
      [] OTHER            -> k.txt

\* C10 (amended): the join step replaces the key column of both loaded
\* collections by its text form; nothing else of them ever changes.
OnlyKeyColumnsRewritten ==
    LET joined == pc \notin {"start", "load", "select", "merge", "failed"}
                  \/ (pc = "failed" /\ error.at \in RenderSteps)
    IN  /\ df.cols = dfLoaded.cols
        /\ Len(df.rows) = Len(dfLoaded.rows)
        /\ Len(geo) = Len(geoLoaded)
        /\ \A i \in 1..Len(df.rows) :
              /\ df.rows[i].CommunityAreaName = dfLoaded.rows[i].CommunityAreaName
              /\ df.rows[i].value = dfLoaded.rows[i].value
              /\ df.rows[i].CommunityArea =
                    IF joined
                    THEN [kind |-> "text", num |-> 0,
                          txt |-> KeyText(dfLoaded.rows[i].CommunityArea)]
                    ELSE dfLoaded.rows[i].CommunityArea
        /\ \A i \in 1..Len(geo) :
              /\ geo[i].geometry = geoLoaded[i].geometry
              /\ geo[i].area_numbe =
                    IF joined
                    THEN [kind |-> "text", num |-> 0,
                          txt |-> KeyText(geoLoaded[i].area_numbe)]
                    ELSE geoLoaded[i].area_numbe

TableFromRewrittenKeys ==
    /\ pc = "done"
    /\ csvFile.kind = "int"
    /\ df # dfLoaded
    /\ Len(df.rows) > 1
    /\ df.rows[1].value = NaN
    /\ df.rows[2].value # NaN
====
